---- MODULE Spec2Model ----
(***************************************************************************)
(* Model of the can2vss-feeder driver (src/main.cpp): bootstrap, handle    *)
(* pre-resolution, the polling loop with its input-driven and periodic     *)
(* ticks, publication through pre-resolved handles, and the stop signal.   *)
(* The DAG processor, the CAN source and the KUKSA client/resolver are     *)
(* external libraries: their results are inputs of the driver's steps.     *)
(***************************************************************************)
EXTENDS Integers, Sequences, FiniteSets, TLC

\* ------------------------------------------------------------------ bounds
MaxTimeMs    == 112  \* horizon of the steady clock, in milliseconds
TicksPerMs   == 2    \* resolution of the steady clock: clock ticks per ms
MaxBatch     == 1    \* longest batch poll() returns
MaxEmissions == 2    \* longest emission list the processor returns
MaxEntries   == 2    \* longest 'mappings' list of the YAML document
LiveMaxTimeMs == 62  \* horizon of the steady clock under LiveSpec
ThrottleMs   == 20   \* interval_ms of the throttled mappings of a document
DagMaxTimeMs == 30   \* horizon of the steady clock under DagSpec

\* ------------------------------------------------------- program constants
ExpectedArgc         == 5    \* main.cpp:90
PeriodicIntervalMs   == 50   \* main.cpp:294
ProcessingIntervalMs == 10   \* main.cpp:262
EXIT_OK              == 0    \* main.cpp:329
EXIT_FAILURE         == 1    \* main.cpp:92
NoExit               == -1   \* main has not returned
NoReading            == -1   \* a clock reading that is not in scope
NeverTs              == -1   \* timestamp of a node never evaluated or emitted

MaxTime             == MaxTimeMs * TicksPerMs
LiveMaxTime         == LiveMaxTimeMs * TicksPerMs
processing_interval == ProcessingIntervalMs * TicksPerMs

\* --------------------------------------------------------------- universes
Signals     == {"SIGINT", "SIGTERM"}
Names       == {"Vehicle.Speed", "Vehicle.Gear"}
InputNames  == {"VehSpeed"}
Argcs       == {4, 5, 6}
NoField     == "<absent>"

\* durations of a poll, in clock ticks: instantaneous, and one tick short of
\* the processing interval
PollDurations    == {0, processing_interval - 1}
\* durations of a process call, in clock ticks
ProcessDurations == {0}
\* how much longer than asked sleep_for may sleep, in clock ticks
OverSleeps       == {0}

QualifiedValues == { [valid |-> TRUE,  value |-> 42],
                     [valid |-> FALSE, value |-> 0] }
VSSSignals  == [path : Names, qualified_value : QualifiedValues]
Updates     == [name : InputNames, value : {42}]
Statuses    == {"ok", "error"}
\* the value of a node that has none yet
NoValue     == [valid |-> FALSE, value |-> 0]

RECURSIVE SeqsUpTo(_, _)
SeqsUpTo(S, n) ==
    IF n = 0 THEN {<<>>}
    ELSE LET shorter == SeqsUpTo(S, n - 1)
         IN  shorter \cup { Append(s, x) : s \in {t \in shorter : Len(t) = n - 1}, x \in S }

Batches       == SeqsUpTo(Updates, MaxBatch)
EmissionLists == SeqsUpTo(VSSSignals, MaxEmissions)

\* a YAML mapping entry, reduced to the field the driver keys on
Entries == [signal : Names \cup {NoField}]
Docs    == SeqsUpTo(Entries, MaxEntries)

\* ------------------------------------------- the mapping document in full
\* the value under key f of a YAML node, NoField when the node has no such key
Field(e, f) == IF f \in DOMAIN e THEN e[f] ELSE NoField

\* datatype strings of a document: a recognized one, an unrecognized one
DatatypeStrings == {"float", "flaot"}
\* update_trigger strings of a document: the three named ones and another
TriggerStrings  == {"on-dependency", "periodic", "both", "sometimes"}

\* a mapping entry with every key the parse loop reads; NoField, the empty
\* list and interval 0 stand for an absent key
EntryShapes ==
    [signal         : Names \cup {NoField},
     source         : InputNames \cup {NoField},
     datatype       : DatatypeStrings \cup {NoField},
     interval_ms    : {0, ThrottleMs},
     depends_on     : SeqsUpTo(Names, 1),
     update_trigger : TriggerStrings \cup {NoField}]

\* the plain entry of a name: a leaf bound to the input, float, unthrottled
PlainEntry(name) ==
    [signal |-> name, source |-> "VehSpeed", datatype |-> "float",
     interval_ms |-> 0, depends_on |-> << >>, update_trigger |-> NoField]

\* entries that differ from a plain entry in one key
ConfigEntries ==
    { e \in EntryShapes :
        \E name \in Names, f \in {"signal", "datatype", "depends_on",
                                   "update_trigger"} :
           \A g \in DOMAIN e : g # f => e[g] = PlainEntry(name)[g] }
ConfigDocs == SeqsUpTo(ConfigEntries, MaxEntries)

\* the keys a 'transform' map of the document may carry; scale is a key the
\* parse loop does not look at
TransformKeys == {"code", "math", "mapping", "scale"}
TransformScalars ==
    [code |-> "Speed * 2", math |-> "Speed + 1", scale |-> "3"]
MappingItem(from, to) == [from |-> from, to |-> to]
\* the lists under transform.mapping: empty, one item, two items, and two
\* items with the same from
MappingLists ==
    { << >>,
      << MappingItem("0", "P") >>,
      << MappingItem("0", "P"), MappingItem("1", "R") >>,
      << MappingItem("0", "P"), MappingItem("0", "R") >> }
TransformNodes ==
    { [k \in keys |-> IF k = "mapping" THEN items ELSE TransformScalars[k]] :
         keys \in SUBSET TransformKeys, items \in MappingLists }
\* entries of one signal that differ in their transform, one without the key
TransformEntries ==
    {PlainEntry("Vehicle.Speed")}
      \cup { ("transform" :> t) @@ PlainEntry("Vehicle.Speed") :
                t \in TransformNodes }
TransformDocs == SeqsUpTo(TransformEntries, MaxEntries)

VARIABLES
    pc,                  \* position of main()
    exit_code,           \* value main returned, NoExit before
    g_running,           \* std::atomic<bool> g_running
    argc,                \* argument count the process was started with
    log_error,           \* the last error/usage message written
    dag_mappings,        \* keys of the unordered_map dag_mappings
    source_state,        \* life cycle of can_source
    resolve_pending,     \* names the pre-resolve loop has not visited yet
    signal_handles,      \* name -> pre-resolved handle
    clock,               \* std::chrono::steady_clock, in clock ticks
    last_periodic_check, loop_start, now,
    signal_updates,      \* batch returned by the last poll
    vss_signals,         \* emissions returned by the last process call
    idx,                 \* position of the range-for in vss_signals
    \* history of the calls made to the collaborators
    called,              \* kinds of collaborator calls made so far
    resolve_attempts,    \* name -> number of get_dynamic calls
    resolve_failed,      \* names whose get_dynamic failed
    proc_calls,          \* batches passed to process in this loop iteration
    offered,             \* emissions the publish loop visited in this tick
    set_calls,           \* client->set invocations of this tick
    unprocessed,         \* polled batch not yet passed to process
    unoffered,           \* emissions the publish loop has not visited yet
    polls_after_stop,    \* polls started since g_running was cleared
    stopped_at,          \* position of main() when g_running was cleared
    signalled,           \* a stop signal was delivered to the handler
    periodic_ref,        \* clock reading the periodic cadence counts from
    root,                \* entries of root["mappings"], until bootstrap is over
    signal_mapping,      \* values of the unordered_map dag_mappings
    source_args,         \* what the source was constructed with
    \* the signal processor
    processor_state,     \* "constructed", "initialized" or "failed"
    topological_order,   \* order in which the processor visits the nodes
    last_value, last_eval_ts, last_emit_ts, dirty,   \* node state store
    prev_emit_ts,        \* last_emit_ts before the latest emission of a node
    prev_value,          \* last_value before the latest tick
    activated,           \* nodes activated in the latest tick
    env_read             \* environment a node's evaluator read in that tick

vars == << pc, exit_code, g_running, argc, log_error, dag_mappings,
           source_state, resolve_pending, signal_handles, clock,
           last_periodic_check, loop_start, now, signal_updates, vss_signals,
           idx, called, resolve_attempts, resolve_failed, proc_calls, offered,
           set_calls, unprocessed, unoffered, polls_after_stop, stopped_at,
           signalled, periodic_ref, root, signal_mapping, source_args,
           processor_state, topological_order, last_value, last_eval_ts,
           last_emit_ts, dirty, prev_emit_ts, prev_value, activated, env_read >>

bootVars == << argc, dag_mappings, source_state, resolve_pending,
               signal_handles, resolve_attempts, resolve_failed,
               root, signal_mapping, source_args >>
nodeVars == << processor_state, topological_order, last_value, last_eval_ts,
               last_emit_ts, dirty, prev_emit_ts, prev_value, activated,
               env_read >>
timeVars == << clock, last_periodic_check, loop_start, now >>
histVars == << polls_after_stop, stopped_at, signalled, periodic_ref >>
tickVars == << signal_updates, vss_signals, idx, proc_calls, offered, set_calls,
              unprocessed, unoffered >>

\* ------------------------------------------------------------ pure helpers
\* a resolver that answers every request with the handle of Vehicle.Speed
Handle_Mutant(name) == [path |-> "Vehicle.Speed"]

\* main.cpp:249: the handle get_dynamic(name) returns, when it succeeds
Handle(name) == [path |-> name]

is_valid(qualified_value) == qualified_value.valid

\* a handler that forgets SIGTERM
signal_handler_Mutant(signal, running) ==
    IF signal = "SIGINT" THEN FALSE ELSE running

\* main.cpp:37-42 signal_handler: the new value of g_running
signal_handler(signal, running) ==
    IF signal = "SIGINT" \/ signal = "SIGTERM" THEN FALSE ELSE running

\* the range of the driver's parse loop: one key per entry with a signal field
RECURSIVE ParseMappings(_)
ParseMappings(doc) ==
    IF doc = <<>> THEN {}
    ELSE LET rest == ParseMappings(SubSeq(doc, 1, Len(doc) - 1))
             e    == doc[Len(doc)]
         IN  IF e.signal = NoField THEN rest ELSE rest \cup {e.signal}

\* main.cpp:138 value_type_from_string: the optional it returns
value_type_from_string(datatype_str) ==
    IF datatype_str = "float" THEN << "FLOAT" >> ELSE << >>

\* main.cpp:135-148: the datatype stored for an entry
ParseDatatype(mapping_node) ==
    IF Field(mapping_node, "datatype") # NoField
      THEN LET datatype_opt == value_type_from_string(mapping_node.datatype)
           IN  IF datatype_opt # << >> THEN datatype_opt[1]
                                       ELSE "UNSPECIFIED"   \* after a warning
      ELSE "UNSPECIFIED"                                    \* after a warning

\* the update trigger of a SignalMapping that main never assigned
DefaultUpdateTrigger == "ON_DEPENDENCY"

\* main.cpp:189-199: the update trigger stored for an entry
ParseUpdateTrigger(mapping_node) ==
    IF Field(mapping_node, "update_trigger") # NoField
      THEN LET trigger == mapping_node.update_trigger
           IN  IF trigger = "periodic" THEN "PERIODIC"
               ELSE IF trigger = "both" THEN "BOTH"
               ELSE "ON_DEPENDENCY"
      ELSE DefaultUpdateTrigger

\* the alternatives of the variant SignalMapping::transform
DirectMapping == [kind |-> "DirectMapping"]
CodeTransform(expression) ==
    [kind |-> "CodeTransform", expression |-> expression]
ValueMapping(mappings) == [kind |-> "ValueMapping", mappings |-> mappings]

\* a loop that keeps the first item of a from value
RECURSIVE InsertItems_Mutant(_)
InsertItems_Mutant(items) ==
    IF items = << >> THEN << >>
    ELSE LET item == items[Len(items)]
         IN  InsertItems_Mutant(SubSeq(items, 1, Len(items) - 1))
                @@ (item.from :> item.to)

\* main.cpp:176-180: value_map.mappings[from] = to for every item in order,
\* so a later item replaces an earlier one of the same from
RECURSIVE InsertItems(_)
InsertItems(items) ==
    IF items = << >> THEN << >>
    ELSE LET item == items[Len(items)]
         IN  (item.from :> item.to)
                @@ InsertItems(SubSeq(items, 1, Len(items) - 1))

\* a parse that looks for math before code
ParseTransform_Mutant(mapping_node) ==
    IF "transform" \in DOMAIN mapping_node
      THEN LET transform == mapping_node.transform
           IN  IF "math" \in DOMAIN transform
                 THEN CodeTransform(transform.math)
               ELSE IF "code" \in DOMAIN transform
                 THEN CodeTransform(transform.code)
               ELSE IF "mapping" \in DOMAIN transform
                 THEN ValueMapping(InsertItems(transform.mapping))
               ELSE DirectMapping
      ELSE DirectMapping

\* main.cpp:166-187: the transform stored for an entry
ParseTransform(mapping_node) ==
    IF "transform" \in DOMAIN mapping_node
      THEN LET transform == mapping_node.transform
           IN  IF "code" \in DOMAIN transform
                 THEN CodeTransform(transform.code)
               ELSE IF "math" \in DOMAIN transform
                 THEN CodeTransform(transform.math)
               ELSE IF "mapping" \in DOMAIN transform
                 THEN ValueMapping(InsertItems(transform.mapping))
               ELSE DirectMapping
      ELSE DirectMapping

\* main.cpp:127-199: the SignalMapping built from an entry that has a signal
ParseEntry(mapping_node) ==
    [source         |-> Field(mapping_node, "source"),
     datatype       |-> ParseDatatype(mapping_node),
     interval_ms    |-> IF "interval_ms" \in DOMAIN mapping_node
                          THEN mapping_node.interval_ms ELSE 0,
     depends_on     |-> IF "depends_on" \in DOMAIN mapping_node
                          THEN mapping_node.depends_on ELSE << >>,
     transform      |-> ParseTransform(mapping_node),
     update_trigger |-> ParseUpdateTrigger(mapping_node)]

\* a parse loop that keeps the first entry of a signal
RECURSIVE ParseFields_Mutant(_)
ParseFields_Mutant(doc) ==
    IF doc = << >> THEN << >>
    ELSE LET rest == ParseFields_Mutant(SubSeq(doc, 1, Len(doc) - 1))
             e    == doc[Len(doc)]
         IN  IF e.signal = NoField THEN rest
             ELSE rest @@ (e.signal :> ParseEntry(e))

\* main.cpp:117-203: the values of dag_mappings; an entry without a signal is
\* skipped and a later entry replaces an earlier one of the same signal
RECURSIVE ParseFields(_)
ParseFields(doc) ==
    IF doc = << >> THEN << >>
    ELSE LET rest == ParseFields(SubSeq(doc, 1, Len(doc) - 1))
             e    == doc[Len(doc)]
         IN  IF e.signal = NoField THEN rest
             ELSE (e.signal :> ParseEntry(e)) @@ rest

\* std::chrono::duration_cast<milliseconds>: truncation toward zero
duration_cast_ms(ticks) == ticks \div TicksPerMs

\* a strict comparison in place of >=
PeriodicDue_Mutant(elapsed_ms) == elapsed_ms > PeriodicIntervalMs

\* main.cpp:294: the periodic tick is due
PeriodicDue(elapsed_ms) == elapsed_ms >= PeriodicIntervalMs

InLoop == pc \in {"loop_check", "poll", "process", "publish", "periodic_check",
                  "periodic_process", "periodic_publish", "sleep"}

HandlersInstalled == pc \notin {"start", "done", "killed"}

\* where in main() a position lies, as far as a stop signal is concerned:
\* before the loop, at the loop test, between the test and the poll, after
\* the poll of the iteration, or in its sleep
Phase(position) ==
    CASE position \in {"loop_check", "poll", "sleep", "stop_source"} -> position
      [] position \in {"process", "publish", "periodic_check",
                       "periodic_process", "periodic_publish"} -> "tick"
      [] OTHER -> "init"

\* a check that only rejects too few arguments
WrongArgc_Mutant(count) == count < ExpectedArgc

\* main.cpp:90: the argument count is not the expected one
WrongArgc(count) == count # ExpectedArgc

\* -------------------------------------------------------------------- Init
InitExceptDocument ==
    /\ pc = "start"
    /\ exit_code = NoExit
    /\ g_running = TRUE
    /\ argc \in Argcs
    /\ log_error = "none"
    /\ source_state = "none"
    /\ resolve_pending = {}
    /\ signal_handles = << >>
    /\ clock = 0
    /\ last_periodic_check = 0
    /\ loop_start = 0
    /\ now = NoReading
    /\ signal_updates = <<>>
    /\ vss_signals = <<>>
    /\ idx = 1
    /\ called = {}
    /\ resolve_attempts = [n \in Names |-> 0]
    /\ resolve_failed = {}
    /\ proc_calls = <<>>
    /\ offered = <<>>
    /\ set_calls = <<>>
    /\ unprocessed = <<>>
    /\ unoffered = <<>>
    /\ polls_after_stop = 0
    /\ stopped_at = "never"
    /\ signalled = FALSE
    /\ periodic_ref = 0
    /\ source_args = {}
    /\ processor_state = "constructed"
    /\ topological_order = << >>
    /\ last_value = [n \in Names |-> NoValue]
    /\ last_eval_ts = [n \in Names |-> NeverTs]
    /\ last_emit_ts = [n \in Names |-> NeverTs]
    /\ dirty = [n \in Names |-> FALSE]
    /\ prev_emit_ts = [n \in Names |-> NeverTs]
    /\ prev_value = [n \in Names |-> NoValue]
    /\ activated = {}
    /\ env_read = [n \in Names |-> << >>]

Init ==
    /\ InitExceptDocument
    /\ root = << >>
    /\ dag_mappings = {}
    /\ signal_mapping = << >>

\* main returns `code` after writing message `msg`
Return(code, msg) ==
    /\ pc' = "done"
    /\ exit_code' = code
    /\ log_error' = msg

Goto(label) ==
    /\ pc' = label
    /\ UNCHANGED << exit_code, log_error >>

\* --------------------------------------------------------------- bootstrap
\* main.cpp:90-102: argument count check, then the handlers are installed
CheckArgs ==
    /\ pc = "start"
    /\ IF WrongArgc(argc)
         THEN Return(EXIT_FAILURE, "usage")
         ELSE Goto("load_yaml")
    /\ UNCHANGED << nodeVars, g_running, bootVars, timeVars, tickVars, called, histVars >>

\* main.cpp:111-203: load the document (a document YAML cannot load throws),
\* require its 'mappings' section, run the parse loop over the entries
LoadYamlFrom(docs) ==
    /\ pc = "load_yaml"
    /\ \/ /\ pc' = "killed"                       \* uncaught YAML exception
          /\ UNCHANGED << exit_code, log_error, dag_mappings, root,
                          signal_mapping >>
       \/ /\ Return(EXIT_FAILURE, "no_mappings")  \* no 'mappings' section
          /\ UNCHANGED << dag_mappings, root, signal_mapping >>
       \/ \E doc \in docs :
             /\ root' = doc
             /\ dag_mappings' = ParseMappings(doc)
             /\ signal_mapping' = ParseFields(doc)
             /\ Goto("init_processor")
    /\ UNCHANGED << nodeVars, g_running, argc, source_state, resolve_pending,
                    signal_handles, resolve_attempts, resolve_failed,
                    source_args, timeVars, tickVars, called, histVars >>

LoadYaml == LoadYamlFrom(Docs)

\* ------------------------------------------------- the topology resolver
\* the names a mapping depends on
DependsOn(mapping) == { mapping.depends_on[i] : i \in DOMAIN mapping.depends_on }

\* the nodes reachable from the nodes of `from` along depends_on edges, in at
\* most `steps` further steps
RECURSIVE Reachable(_, _, _)
Reachable(mappings, from, steps) ==
    IF steps = 0 THEN from
    ELSE LET next == UNION { DependsOn(mappings[n]) :
                               n \in from \cap DOMAIN mappings }
         IN  Reachable(mappings, from \cup next, steps - 1)

\* the transitive dependencies of a node
TransitiveDeps(mappings, n) ==
    Reachable(mappings, DependsOn(mappings[n]), Cardinality(DOMAIN mappings))

\* a node depends on itself through one or more edges
HasCycle(mappings) ==
    \E n \in DOMAIN mappings : n \in TransitiveDeps(mappings, n)

\* a depends_on name that is no node of the mapping set
HasDanglingDependency(mappings) ==
    \E n \in DOMAIN mappings : DependsOn(mappings[n]) \ DOMAIN mappings # {}

\* what processor.initialize may return for a mapping set: a set that is no
\* DAG is rejected; any other may be accepted or fail for another reason
initialize_results(mappings) ==
    IF HasCycle(mappings) \/ HasDanglingDependency(mappings)
      THEN {FALSE} ELSE BOOLEAN

\* a driver that goes on whatever processor.initialize returned
ProcessorInitFailed_Mutant(ok) == FALSE

\* main.cpp:207: the test of what processor.initialize returned
ProcessorInitFailed(ok) == ~ok

\* main.cpp:205-210
InitProcessor ==
    /\ pc = "init_processor"
    /\ \E ok \in initialize_results(signal_mapping) :
          IF ProcessorInitFailed(ok) THEN Return(EXIT_FAILURE, "processor")
                                     ELSE Goto("init_source")
    /\ called' = called \cup {"processor.initialize"}
    /\ UNCHANGED << nodeVars, g_running, bootVars, timeVars, tickVars, histVars >>

\* a driver that goes on whatever can_source->initialize returned
SourceInitFailed_Mutant(ok) == FALSE

\* main.cpp:216: the test of what can_source->initialize returned
SourceInitFailed(ok) == ~ok

\* main.cpp:212-225: construct the source from the interface name, the DBC
\* file and dag_mappings, initialize it, then read the processor's required
\* input signals, which are logged
InitSource ==
    /\ pc = "init_source"
    /\ source_args' = {"can_interface", "dbc_file", "dag_mappings"}
    /\ \E ok \in BOOLEAN :
          /\ source_state' = IF ok THEN "initialized" ELSE "failed"
          /\ IF SourceInitFailed(ok)
               THEN /\ Return(EXIT_FAILURE, "source")
                    /\ called' = called \cup {"source.initialize"}
               ELSE /\ Goto("create_resolver")
                    /\ called' = called \cup {"source.initialize",
                                               "required_inputs"}
    /\ UNCHANGED << nodeVars, g_running, argc, dag_mappings, resolve_pending,
                    signal_handles, resolve_attempts, resolve_failed,
                    root, signal_mapping, timeVars, tickVars, histVars >>

\* main.cpp:229-234
CreateResolver ==
    /\ pc = "create_resolver"
    /\ \E ok \in BOOLEAN :
          IF ok THEN Goto("create_client")
                ELSE Return(EXIT_FAILURE, "resolver")
    /\ UNCHANGED << nodeVars, g_running, bootVars, timeVars, tickVars, called, histVars >>

\* main.cpp:236-246
CreateClient ==
    /\ pc = "create_client"
    /\ \E ok \in BOOLEAN :
          IF ok THEN /\ Goto("resolve")
                     /\ resolve_pending' = dag_mappings
                ELSE /\ Return(EXIT_FAILURE, "client")
                     /\ UNCHANGED resolve_pending
    /\ UNCHANGED << nodeVars, g_running, argc, dag_mappings, source_state,
                    signal_handles, resolve_attempts, resolve_failed,
                    root, signal_mapping, source_args,
                    timeVars, tickVars, called, histVars >>

\* a lookup that never finds the handle
find_Mutant(handles, path) == << >>

\* main.cpp:280/307: signal_handles.find(path); <<>> stands for end()
find(handles, path) ==
    IF path \in DOMAIN handles THEN << handles[path] >> ELSE << >>

\* a pre-resolve loop that stores a handle whatever get_dynamic returned
StoreResolved_Mutant(handles, name, ok) == handles @@ (name :> Handle(name))

\* main.cpp:249-255: what one pass of the pre-resolve loop stores
StoreResolved(handles, name, ok) ==
    IF ok THEN handles @@ (name :> Handle(name)) ELSE handles

\* publish_to_kuksa without its validity check
publish_to_kuksa_Mutant(handle, vss_signal, status) ==
    << [handle |-> handle, for_path |-> vss_signal.path,
        qualified_value |-> vss_signal.qualified_value,
        status |-> status] >>

\* main.cpp:59-79 publish_to_kuksa: the client->set invocations it makes
publish_to_kuksa(handle, vss_signal, status) ==
    IF ~is_valid(vss_signal.qualified_value)
      THEN << >>
      ELSE << [handle |-> handle, for_path |-> vss_signal.path,
               qualified_value |-> vss_signal.qualified_value,
               status |-> status] >>

\* main.cpp:65-78: the value publish_to_kuksa returns
publish_result(vss_signal, status) ==
    is_valid(vss_signal.qualified_value) /\ status = "ok"

\* a range-for that also stops when the run flag is cleared
RangeForContinues_Mutant(i, signals, running) == i <= Len(signals) /\ running

\* main.cpp:277/304: the range-for has a next element
RangeForContinues(i, signals, running) == i <= Len(signals)

\* a range-for that breaks at the first failed publish
RangeForNext_Mutant(i, signals, result) ==
    IF result THEN i + 1 ELSE Len(signals) + 1

\* main.cpp:277-286: the range-for goes on to the next emission whatever
\* publish_to_kuksa returned (its result is discarded)
RangeForNext(i, signals, result) == i + 1

\* a loop that never tests the run flag
LoopContinues_Mutant(running) == TRUE

\* main.cpp:264: the condition of the while loop
LoopContinues(running) == running

\* a driver that processes the polled batch even when it is empty
HasUpdates_Mutant(batch) == TRUE

\* main.cpp:271: the polled batch is processed
HasUpdates(batch) == batch # << >>

\* a driver that restarts the periodic timer after every tick
TimerAfterTick_Mutant(periodic, last, reading) == reading

\* main.cpp:271-316: last_periodic_check once the publish loop of a tick has
\* ended; only the periodic branch assigns it (:315)
TimerAfterTick(periodic, last, reading) ==
    IF periodic THEN reading ELSE last

\* main.cpp:319-322: the time sleep_for is asked to sleep, 0 when none
SleepTime(loop_duration) ==
    IF loop_duration < processing_interval
      THEN processing_interval - loop_duration ELSE 0

\* ------------------------------------------------ pre-resolution of handles
\* main.cpp:248-257: one pass of the loop over dag_mappings (unordered)
ResolveOne ==
    /\ pc = "resolve"
    /\ \E name \in resolve_pending, ok \in BOOLEAN :
          /\ signal_handles' = StoreResolved(signal_handles, name, ok)
          /\ resolve_failed' = IF ok THEN resolve_failed
                                     ELSE resolve_failed \cup {name}
          /\ resolve_attempts' = [resolve_attempts EXCEPT ![name] = @ + 1]
          /\ resolve_pending' = resolve_pending \ {name}
    /\ Goto("resolve")
    /\ UNCHANGED << nodeVars, g_running, argc, dag_mappings, source_state,
                    root, signal_mapping, source_args,
                    timeVars, tickVars, called, histVars >>

\* main.cpp:258-262: the loop over dag_mappings ends; the periodic timer starts
ResolveDone ==
    /\ pc = "resolve"
    /\ resolve_pending = {}
    /\ last_periodic_check' = clock
    /\ periodic_ref' = clock
    /\ root' = << >>          \* the document is not read again
    /\ Goto("loop_check")
    /\ UNCHANGED << nodeVars, g_running, argc, dag_mappings, source_state,
                    resolve_pending, signal_handles, resolve_attempts,
                    resolve_failed, signal_mapping, source_args, clock,
                    loop_start, now, tickVars, called, polls_after_stop,
                    stopped_at, signalled >>

\* ---------------------------------------------------------------- main loop
\* main.cpp:264-265: test of the run flag, start of an iteration
LoopCheckUntil(horizon) ==
    /\ pc = "loop_check"
    /\ IF LoopContinues(g_running)
         THEN /\ clock + processing_interval <= horizon   \* model horizon
              /\ loop_start' = clock
              /\ Goto("poll")
         ELSE /\ Goto("stop_source")
              /\ UNCHANGED loop_start
    /\ UNCHANGED << nodeVars, g_running, bootVars, clock, last_periodic_check, now,
                    tickVars, called, histVars >>

LoopCheck == LoopCheckUntil(MaxTime)

\* main.cpp:268-271: poll the source
Poll ==
    /\ pc = "poll"
    /\ \E batch \in Batches, d \in PollDurations :
          /\ clock + d <= MaxTime
          /\ clock' = clock + d
          /\ signal_updates' = batch
          /\ unprocessed' = batch
          /\ Goto(IF HasUpdates(batch) THEN "process" ELSE "periodic_check")
    /\ called' = called \cup {"poll"}
    /\ polls_after_stop' = IF g_running THEN polls_after_stop
                                        ELSE polls_after_stop + 1
    /\ UNCHANGED << nodeVars, g_running, bootVars, last_periodic_check, loop_start, now,
                    vss_signals, idx, proc_calls, offered, set_calls, unoffered,
                    stopped_at, signalled, periodic_ref >>

\* a call of processor.process_signal_updates(batch) and the start of the
\* range-for over what it returned
Process(batch, next) ==
    /\ \E emissions \in EmissionLists, d \in ProcessDurations :
          /\ clock + d <= MaxTime
          /\ clock' = clock + d
          /\ vss_signals' = emissions
          /\ unoffered' = emissions
    /\ proc_calls' = Append(proc_calls, batch)
    /\ idx' = 1
    /\ offered' = << >>
    /\ set_calls' = << >>
    /\ called' = called \cup {"process"}
    /\ Goto(next)

\* main.cpp:273: input-driven tick
ProcessUpdates ==
    /\ pc = "process"
    /\ Process(signal_updates, "publish")
    /\ unprocessed' = << >>
    /\ UNCHANGED << nodeVars, g_running, bootVars, last_periodic_check, loop_start, now,
                    signal_updates, histVars >>

\* main.cpp:277-286 / 304-313: one pass of the range-for over vss_signals
PublishOne ==
    /\ pc \in {"publish", "periodic_publish"}
    /\ RangeForContinues(idx, vss_signals, g_running)
    /\ LET vss == vss_signals[idx]
           it  == find(signal_handles, vss.path)
       IN  /\ \E status \in Statuses :
                IF it # << >>
                  THEN /\ set_calls' = set_calls \o publish_to_kuksa(it[1], vss, status)
                       /\ idx' = RangeForNext(idx, vss_signals,
                                              publish_result(vss, status))
                  ELSE /\ set_calls' = set_calls
                       /\ idx' = RangeForNext(idx, vss_signals, TRUE)
           /\ called' = IF set_calls' # set_calls THEN called \cup {"set"}
                                                  ELSE called
           /\ offered' = Append(offered, vss)
    /\ unoffered' = Tail(unoffered)
    /\ Goto(pc)
    /\ UNCHANGED << nodeVars, g_running, bootVars, timeVars, signal_updates, vss_signals,
                    proc_calls, unprocessed, histVars >>

\* the range-for ends and vss_signals goes out of scope
EndOfRangeFor ==
    /\ ~RangeForContinues(idx, vss_signals, g_running)
    /\ vss_signals' = << >>
    /\ idx' = 1
    /\ offered' = << >>
    /\ set_calls' = << >>
    /\ UNCHANGED << signal_updates, proc_calls, unprocessed, unoffered >>

\* main.cpp:286-287: the range-for of the input-driven tick ends
PublishDone ==
    /\ pc = "publish"
    /\ EndOfRangeFor
    /\ last_periodic_check' = TimerAfterTick(FALSE, last_periodic_check, clock)
    /\ Goto("periodic_check")
    /\ UNCHANGED << nodeVars, g_running, bootVars, clock, loop_start, now, called,
                    histVars >>

\* main.cpp:290-294: is a periodic tick due
PeriodicCheck ==
    /\ pc = "periodic_check"
    /\ now' = clock
    /\ LET elapsed_ms == duration_cast_ms(clock - last_periodic_check)
       IN  Goto(IF PeriodicDue(elapsed_ms) THEN "periodic_process" ELSE "sleep")
    /\ UNCHANGED << nodeVars, g_running, bootVars, clock, last_periodic_check, loop_start,
                    tickVars, called, histVars >>

\* main.cpp:297: periodic tick, process called with the empty batch
ProcessPeriodic ==
    /\ pc = "periodic_process"
    /\ Process(<< >>, "periodic_publish")
    /\ periodic_ref' = now
    /\ UNCHANGED << nodeVars, g_running, bootVars, last_periodic_check, loop_start, now,
                    signal_updates, unprocessed, polls_after_stop, stopped_at,
                    signalled >>

\* main.cpp:313-316: the range-for of the periodic tick ends, timer reset
PeriodicDone ==
    /\ pc = "periodic_publish"
    /\ EndOfRangeFor
    /\ last_periodic_check' = TimerAfterTick(TRUE, last_periodic_check, now)
    /\ Goto("sleep")
    /\ UNCHANGED << nodeVars, g_running, bootVars, clock, loop_start, now, called,
                    histVars >>

\* main.cpp:319-323: sleep for the remainder of the processing interval; the
\* iteration ends, signal_updates and now go out of scope (now reads
\* NoReading until line 290 of the next iteration defines it again)
Sleep ==
    /\ pc = "sleep"
    /\ LET loop_duration == clock - loop_start
           asked         == SleepTime(loop_duration)
       IN  IF asked > 0
             THEN \E over \in OverSleeps :
                     /\ clock + asked + over <= MaxTime
                     /\ clock' = clock + asked + over
             ELSE UNCHANGED clock
    /\ signal_updates' = << >>
    /\ proc_calls' = << >>
    /\ now' = NoReading
    /\ Goto("loop_check")
    /\ UNCHANGED << nodeVars, g_running, bootVars, last_periodic_check, loop_start,
                    vss_signals, idx, offered, set_calls, unprocessed, unoffered,
                    called, histVars >>

\* main.cpp:326-329: stop the source and return
StopSource ==
    /\ pc = "stop_source"
    /\ source_state' = "stopped"
    /\ called' = called \cup {"source.stop"}
    /\ pc' = "done"
    /\ exit_code' = EXIT_OK
    /\ UNCHANGED << nodeVars, g_running, log_error, argc, dag_mappings,
                    resolve_pending, signal_handles, resolve_attempts,
                    resolve_failed, root, signal_mapping, source_args,
                    timeVars, tickVars, histVars >>

\* ------------------------------------------------------------------ signals
\* main.cpp:37-42, 101-102: SIGINT or SIGTERM while the handler is installed
SignalDelivered ==
    /\ HandlersInstalled
    /\ \E signal \in Signals : g_running' = signal_handler(signal, g_running)
    /\ signalled' = TRUE
    /\ stopped_at' = IF g_running /\ ~g_running' THEN Phase(pc) ELSE stopped_at
    /\ UNCHANGED << nodeVars, pc, exit_code, log_error, bootVars, timeVars, tickVars,
                    called, polls_after_stop, periodic_ref >>

\* a stop signal before main.cpp:101: the default disposition ends the process
SignalBeforeInstall ==
    /\ pc = "start"
    /\ pc' = "killed"
    /\ UNCHANGED << nodeVars, exit_code, log_error, g_running, bootVars, timeVars,
                    tickVars, called, histVars >>

Next ==
    \/ CheckArgs
    \/ LoadYaml
    \/ InitProcessor
    \/ InitSource
    \/ CreateResolver
    \/ CreateClient
    \/ ResolveOne
    \/ ResolveDone
    \/ LoopCheck
    \/ Poll
    \/ ProcessUpdates
    \/ PublishOne
    \/ PublishDone
    \/ PeriodicCheck
    \/ ProcessPeriodic
    \/ PeriodicDone
    \/ Sleep
    \/ StopSource
    \/ SignalDelivered
    \/ SignalBeforeInstall

Spec == Init /\ [][Next]_vars

\* the steps of main(); the collaborators' calls are part of them, so weak
\* fairness of the steps of main says that main keeps running and every call
\* returns
\* the same program observed up to the shorter horizon LiveMaxTime
LiveLoopCheck == LoopCheckUntil(LiveMaxTime)

LiveMainStep ==
    \/ CheckArgs \/ LoadYaml \/ InitProcessor \/ InitSource \/ CreateResolver
    \/ CreateClient \/ ResolveOne \/ ResolveDone \/ LiveLoopCheck \/ Poll
    \/ ProcessUpdates \/ PublishOne \/ PublishDone \/ PeriodicCheck
    \/ ProcessPeriodic \/ PeriodicDone \/ Sleep \/ StopSource

LiveNext ==
    \/ LiveMainStep
    \/ SignalDelivered
    \/ SignalBeforeInstall

LiveSpec == Init /\ [][LiveNext]_vars /\ WF_vars(LiveMainStep)

\* the bootstrap alone, over documents that use every key of an entry: the
\* same program observed until the first test of the run flag
BootLoadYaml  == LoadYamlFrom(ConfigDocs)
BootLoopCheck == LoopCheckUntil(0)

BootNext ==
    \/ CheckArgs
    \/ BootLoadYaml
    \/ InitProcessor
    \/ InitSource
    \/ CreateResolver
    \/ CreateClient
    \/ ResolveOne
    \/ ResolveDone
    \/ BootLoopCheck
    \/ StopSource
    \/ SignalDelivered
    \/ SignalBeforeInstall

BootSpec == Init /\ [][BootNext]_vars

\* the parse loop alone, over documents whose entries carry every shape of
\* the 'transform' key
ParseLoadYaml == LoadYamlFrom(TransformDocs)

ParseNext ==
    \/ CheckArgs
    \/ ParseLoadYaml

ParseSpec == Init /\ [][ParseNext]_vars

\* ------------------------------------------------------ the signal processor
\* The processor object on its own, driven by the calls main makes on it:
\* initialize (main.cpp:207), process_signal_updates with a polled batch
\* (main.cpp:273) and with the empty batch (main.cpp:297).
DagMaxTime == DagMaxTimeMs * TicksPerMs
TickGapsMs == {0, 10}

\* updates as the source delivers them: a value, or an invalid reading
TickUpdates ==
    { [name |-> n, value |-> v, valid |-> TRUE] : n \in InputNames, v \in {1, 2} }
    \cup { [name |-> n, value |-> 0, valid |-> FALSE] : n \in InputNames }
\* the empty batch, the batches of one update, and the batches of two updates
\* of which the later replaces the earlier
TickBatches ==
    { batch \in SeqsUpTo(TickUpdates, 2) :
        Len(batch) = 2 => batch[1].valid /\ batch[2] # batch[1] }

LeafEntry(name, k) ==
    [signal |-> name, source |-> "VehSpeed", datatype |-> "float",
     interval_ms |-> k, depends_on |-> << >>, update_trigger |-> NoField]

DerivedEntry(name, dep, trigger, k) ==
    [signal |-> name, source |-> NoField, datatype |-> "float",
     interval_ms |-> k, depends_on |-> << dep >>, update_trigger |-> trigger]

DagEntries ==
    { LeafEntry("Vehicle.Speed", k) : k \in {0, ThrottleMs} }
    \cup { LeafEntry("Vehicle.Gear", 0) }
    \cup { DerivedEntry("Vehicle.Gear", "Vehicle.Speed", t, k) :
             t \in {NoField, "periodic", "both"}, k \in {0, ThrottleMs} }
    \cup { DerivedEntry("Vehicle.Speed", "Vehicle.Gear", NoField, 0) }

\* documents that declare every name once
DagDocs ==
    { doc \in SeqsUpTo(DagEntries, MaxEntries) :
        \A i, j \in DOMAIN doc : i # j => doc[i].signal # doc[j].signal }

Range(seq) == { seq[i] : i \in DOMAIN seq }

\* the orders in which a std::unordered_map may iterate over its keys
IterationOrders(keys) ==
    { order \in [1 .. Cardinality(keys) -> keys] :
        \A i, j \in DOMAIN order : i # j => order[i] # order[j] }

\* depth-first topological sort: a node is placed after its dependencies
RECURSIVE DfsVisit(_, _, _)
RECURSIVE DfsDeps(_, _, _)
DfsVisit(mappings, n, order) ==
    IF n \in Range(order) THEN order
    ELSE Append(DfsDeps(mappings, mappings[n].depends_on, order), n)

DfsDeps(mappings, deps, order) ==
    IF deps = << >> THEN order
    ELSE DfsDeps(mappings, Tail(deps), DfsVisit(mappings, Head(deps), order))

RECURSIVE DfsAll(_, _, _)
DfsAll(mappings, input, order) ==
    IF input = << >> THEN order
    ELSE DfsAll(mappings, Tail(input), DfsVisit(mappings, Head(input), order))

\* a sort that places a node before its dependencies
TopologicalSort_Mutant(input, mappings) ==
    LET sorted == DfsAll(mappings, input, << >>)
    IN  [i \in DOMAIN sorted |-> sorted[Len(sorted) + 1 - i]]

\* the topological order of a DAG; the order of the input breaks ties
TopologicalSort(input, mappings) == DfsAll(mappings, input, << >>)

\* a throttle that never holds an emission back
Elapsed_Mutant(now_ms, since, interval_ms) == TRUE

\* at least interval_ms passed since `since`
Elapsed(now_ms, since, interval_ms) ==
    since = NeverTs \/ now_ms - since >= interval_ms

IsLeaf(mapping) == mapping.depends_on = << >>

\* the updates of a batch for one input
UpdatesFor(batch, input) == SelectSeq(batch, LAMBDA u : u.name = input)

\* step 1: a leaf is activated by an update of its input, a derived node by
\* an activated dependency or by its period
Activated(st, n, mapping, batch, now_ms) ==
    IF IsLeaf(mapping)
      THEN UpdatesFor(batch, mapping.source) # << >>
      ELSE \/ /\ DependsOn(mapping) \cap st.activated # {}
              /\ mapping.update_trigger \in {"ON_DEPENDENCY", "BOTH"}
           \/ /\ mapping.update_trigger \in {"PERIODIC", "BOTH"}
              /\ Elapsed(now_ms, st.last_eval_ts[n], mapping.interval_ms)

\* an evaluator that ignores the validity of its operands
Evaluate_Mutant(mapping, env) ==
    [valid |-> TRUE, value |-> env[mapping.depends_on[1]].value]

\* step 2: the value of a derived node (a direct transform, or a code
\* transform such as "A && true"): invalid when an operand is invalid
Evaluate(mapping, env) ==
    IF \E d \in DOMAIN env : ~env[d].valid THEN NoValue
    ELSE env[mapping.depends_on[1]]

\* a scheduler that decides emission only for the nodes it activated
Emits_Mutant(st, n, mapping, now_ms) ==
    /\ n \in st.activated
    /\ st.dirty[n]
    /\ st.last_value[n].valid
    /\ (mapping.interval_ms = 0
          \/ Elapsed(now_ms, st.last_emit_ts[n], mapping.interval_ms))

\* step 3: the node emits
Emits(st, n, mapping, now_ms) ==
    /\ st.dirty[n]
    /\ st.last_value[n].valid
    /\ (mapping.interval_ms = 0
          \/ Elapsed(now_ms, st.last_emit_ts[n], mapping.interval_ms))

\* steps 1 and 2 for node n
VisitEvaluate(st, n, mapping, batch, now_ms) ==
    IF ~Activated(st, n, mapping, batch, now_ms) THEN st
    ELSE LET ups   == UpdatesFor(batch, mapping.source)
             last  == ups[Len(ups)]
             env   == [d \in DependsOn(mapping) |-> st.last_value[d]]
             value == IF IsLeaf(mapping)
                        THEN [valid |-> last.valid, value |-> last.value]
                        ELSE Evaluate(mapping, env)
         IN  [st EXCEPT !.last_value[n] = value,
                        !.dirty[n] = TRUE,
                        !.last_eval_ts[n] = now_ms,
                        !.activated = @ \cup {n},
                        !.env_read[n] = IF IsLeaf(mapping) THEN << >> ELSE env]

\* step 3 for node n
VisitEmit(st, n, mapping, now_ms) ==
    IF ~Emits(st, n, mapping, now_ms) THEN st
    ELSE [st EXCEPT !.dirty[n] = FALSE,
                    !.prev_emit_ts[n] = st.last_emit_ts[n],
                    !.last_emit_ts[n] = now_ms,
                    !.output = Append(@, [path |-> n,
                                          qualified_value |-> st.last_value[n]])]

\* one tick: the nodes are visited in topological order
RECURSIVE VisitAll(_, _, _, _, _)
VisitAll(st, order, mappings, batch, now_ms) ==
    IF order = << >> THEN st
    ELSE LET n == Head(order)
             evaluated == VisitEvaluate(st, n, mappings[n], batch, now_ms)
         IN  VisitAll(VisitEmit(evaluated, n, mappings[n], now_ms),
                      Tail(order), mappings, batch, now_ms)

\* processor.process_signal_updates(batch) at time now_ms: the store after
\* the tick, with its emissions in `output`
process_signal_updates(batch, now_ms) ==
    VisitAll([last_value |-> last_value, last_eval_ts |-> last_eval_ts,
              last_emit_ts |-> last_emit_ts, dirty |-> dirty,
              prev_emit_ts |-> prev_emit_ts, activated |-> {},
              env_read |-> [n \in Names |-> << >>], output |-> << >>],
             topological_order, signal_mapping, batch, now_ms)

\* what a step of the processor leaves alone
driverVars == << pc, exit_code, g_running, argc, log_error, dag_mappings,
                 source_state, resolve_pending, signal_handles,
                 last_periodic_check, loop_start, now, idx, called,
                 resolve_attempts, resolve_failed, proc_calls, offered,
                 set_calls, unprocessed, unoffered, polls_after_stop,
                 stopped_at, signalled, periodic_ref, root, signal_mapping,
                 source_args >>

\* the processor is constructed and the document parsed (main.cpp:111-206)
DagInit ==
    /\ InitExceptDocument
    /\ argc = ExpectedArgc
    /\ \E doc \in DagDocs :
          /\ root = doc
          /\ dag_mappings = ParseMappings(doc)
          /\ signal_mapping = ParseFields(doc)

\* main.cpp:207 processor.initialize(dag_mappings): a set that is no DAG is
\* rejected; otherwise the nodes are sorted, from the order in which the
\* unordered_map hands them over
ProcessorInitialize ==
    /\ processor_state = "constructed"
    /\ \E ok \in initialize_results(signal_mapping),
          input \in IterationOrders(dag_mappings) :
          IF ok THEN /\ processor_state' = "initialized"
                     /\ topological_order' = TopologicalSort(input, signal_mapping)
                ELSE /\ processor_state' = "failed"
                     /\ UNCHANGED topological_order
    /\ UNCHANGED << driverVars, clock, signal_updates, vss_signals, last_value,
                    last_eval_ts, last_emit_ts, dirty, prev_emit_ts, prev_value,
                    activated, env_read >>

\* a call of process_signal_updates(batch), some time after the previous one
Tick(batch) ==
    /\ processor_state = "initialized"
    /\ \E gap \in TickGapsMs :
          /\ clock + gap * TicksPerMs <= DagMaxTime
          /\ clock' = clock + gap * TicksPerMs
    /\ LET st == process_signal_updates(batch, duration_cast_ms(clock'))
       IN  /\ last_value' = st.last_value
           /\ last_eval_ts' = st.last_eval_ts
           /\ last_emit_ts' = st.last_emit_ts
           /\ dirty' = st.dirty
           /\ prev_emit_ts' = st.prev_emit_ts
           /\ activated' = st.activated
           /\ env_read' = st.env_read
           /\ vss_signals' = st.output
    /\ prev_value' = last_value
    /\ signal_updates' = batch
    /\ UNCHANGED << driverVars, processor_state, topological_order >>

\* main.cpp:273: the input-driven tick
InputTick == \E batch \in TickBatches : HasUpdates(batch) /\ Tick(batch)

\* main.cpp:297: the periodic tick
PeriodicTick == Tick(<< >>)

DagNext ==
    \/ ProcessorInitialize
    \/ InputTick
    \/ PeriodicTick

DagSpec == DagInit /\ [][DagNext]_vars

\* ==================================================================== claims
TickCalls == {"poll", "process", "set"}

\* C1 as stated: exit code 0 only after the main loop was entered (a poll
\* happened) and left because the run flag was cleared, and every
\* initialization failure returns 1 with no poll, process or publish.
C1_ExitZeroOnlyAfterLoopEntered ==
    /\ exit_code = 0 => ("poll" \in called /\ ~g_running)
    /\ exit_code = 1 => called \cap TickCalls = {}

\* C1 amended: exit code 0 is returned only after initialization succeeded
\* and the loop condition found the run flag cleared, with the source stopped
\* (possibly before any poll, when the signal came during initialization);
\* every initialization failure (argument count other than four, no
\* 'mappings' section, processor, source, resolver or client failure) returns
\* exit code 1 with no poll, process or publish having happened.
C1_ExitCodes ==
    /\ exit_code = 0 =>
          /\ ~g_running
          /\ source_state = "stopped"
          /\ log_error = "none"
          /\ argc - 1 = 4
          /\ resolve_pending = {}
    /\ exit_code = 1 =>
          /\ called \cap (TickCalls \cup {"source.stop"}) = {}
          /\ log_error \in {"usage", "no_mappings", "processor", "source",
                            "resolver", "client"}
    /\ log_error # "none" => (pc = "done" /\ exit_code = 1)
    /\ (argc - 1 # 4 /\ pc \notin {"start", "killed"}) =>
          (exit_code = 1 /\ log_error = "usage")
    /\ pc = "done" => exit_code \in {0, 1}

\* C1 witness: a graceful stop with exit code 0 although no poll ever happened
C1_Witness ==
    /\ pc = "done"
    /\ exit_code = 0
    /\ "poll" \notin called
    /\ stopped_at = "init"

\* C1 witness of a late initialization failure
C1_WitnessFailure == pc = "done" /\ exit_code = 1 /\ log_error = "client"

\* C2 as stated: after the stop signal cleared the run flag, one more complete
\* tick (poll, process, publish) is drained before the source is shut down;
\* stated for a signal that arrives between two ticks, after the loop polled.
C2_OneMoreTickAfterStop ==
    (/\ source_state = "stopped"
     /\ stopped_at \in {"sleep", "loop_check"}
     /\ "poll" \in called) => polls_after_stop >= 1

\* C2 amended: after the stop signal cleared the run flag the driver finishes
\* the loop iteration in progress and starts no new one: at most one poll is
\* made after the flag was cleared (exactly one only when the flag was cleared
\* between the loop test and the poll), and the source is shut down with no
\* polled batch unprocessed and no emission unoffered.
C2_FinishesIterationThenStops ==
    /\ polls_after_stop <= 1
    /\ polls_after_stop = 1 => stopped_at = "poll"
    /\ (pc = "stop_source" \/ source_state = "stopped") =>
          /\ ~g_running
          /\ unprocessed = << >>
          /\ unoffered = << >>
          /\ (stopped_at = "poll") = (polls_after_stop = 1)

\* C2 witness: the flag was cleared during the sleep; the source was shut down
\* after at least one tick with no poll made after the signal
C2_Witness ==
    /\ source_state = "stopped"
    /\ stopped_at = "sleep"
    /\ polls_after_stop = 0
    /\ "set" \in called

\* C3: a stop signal delivered while the driver is in its main loop leads,
\* when every call returns, to the loop being left, source.stop() and return
\* code 0; the run flag starts true, only the handler writes it (main's
\* position does not move in a step that changes it), and it is never set
\* again once cleared.
C3_StopSignalTerminates ==
    /\ g_running = TRUE
    /\ [][ /\ (~g_running => ~g_running')
           /\ (g_running' # g_running => (pc' = pc /\ signalled')) ]_vars
    /\ (InLoop /\ signalled) ~>
          (pc = "done" /\ exit_code = 0 /\ source_state = "stopped")

\* C3 witness: the signal arrived during publishing and the process returned 0
C3_Witness ==
    /\ pc = "done" /\ exit_code = 0
    /\ signalled
    /\ stopped_at = "tick"

\* ------------------------------------------------- vocabulary of the claims
PublishPcs == {"publish", "periodic_publish"}

\* the loop was reached: handle pre-resolution is over
AfterResolve == InLoop \/ pc = "stop_source" \/ (pc = "done" /\ exit_code = 0)

\* an emission the sink must receive: valid and with a pre-resolved handle
Publishable(e) == e.qualified_value.valid /\ e.path \in DOMAIN signal_handles

\* the (path, handle, value) triples of a list of set invocations
SetTriples(calls) ==
    [i \in DOMAIN calls |->
        << calls[i].for_path, calls[i].handle, calls[i].qualified_value >>]

\* the triples the sink must have seen once `emissions` were offered
ExpectedTriples(emissions) ==
    LET keep == SelectSeq(emissions, Publishable)
    IN  [i \in DOMAIN keep |->
            << keep[i].path, [path |-> keep[i].path], keep[i].qualified_value >>]

\* C4: the run flag is observed only at the loop test; a signal delivered
\* inside an iteration never aborts it: when the iteration's work is over (at
\* the periodic check for the input-driven tick, at the sleep, the loop test
\* and the loop exit for both ticks) no polled non-empty batch is unprocessed
\* and no emission is unoffered.
C4_SignalNeverAbortsIteration ==
    /\ pc \notin {"poll", "process"} => unprocessed = << >>
    /\ pc \notin PublishPcs => unoffered = << >>
    /\ pc \in PublishPcs => offered \o unoffered = vss_signals
    /\ (pc \in {"stop_source", "done"} /\ exit_code # 1) => ~g_running

\* C4 witness: the flag was cleared before the poll of the iteration; the
\* batch was processed all the same and both emissions reached the sink
C4_Witness ==
    /\ pc = "publish"
    /\ ~g_running
    /\ stopped_at = "poll"
    /\ signal_updates # << >>
    /\ Len(vss_signals) = 2
    /\ unoffered = << >>
    /\ Len(set_calls) = 2

\* C5: a publish error never stops processing: the remaining emissions of the
\* tick are still offered, no step of main changes the run flag, and once in
\* the loop the only way out is the loop test finding the run flag cleared.
C5_PublishErrorNeverStops ==
    /\ [](pc \notin PublishPcs => unoffered = << >>)
    /\ [](pc \in PublishPcs => /\ offered \o unoffered = vss_signals
                                /\ SetTriples(set_calls) = ExpectedTriples(offered))
    /\ [][ /\ (pc' # pc => g_running' = g_running)
           /\ (set_calls' # set_calls => g_running' = g_running)
           /\ ((InLoop /\ ~InLoop') =>
                  (pc = "loop_check" /\ ~g_running /\ pc' = "stop_source")) ]_vars

\* C5 witness: the first publish of the tick failed, the second emission was
\* offered and published after it
C5_Witness ==
    /\ pc \in PublishPcs
    /\ g_running
    /\ Len(set_calls) = 2
    /\ set_calls[1].status = "error"
    /\ set_calls[2].status = "ok"

C7_NoInvalidValuePublished ==
    /\ \A i \in DOMAIN set_calls : set_calls[i].qualified_value.valid
    /\ pc \in PublishPcs =>
          /\ \A i \in DOMAIN set_calls :
                \E j \in DOMAIN offered :
                   /\ offered[j].qualified_value = set_calls[i].qualified_value
                   /\ offered[j].path = set_calls[i].for_path
                   /\ offered[j].qualified_value.valid
          /\ Len(set_calls) <=
                Cardinality({j \in DOMAIN offered : offered[j].qualified_value.valid})

\* C7 witness: a periodic tick offered an invalid emission of a resolved path,
\* which was skipped, and a valid one, which was published
C7_Witness ==
    /\ pc = "periodic_publish"
    /\ Len(offered) = 2
    /\ ~offered[1].qualified_value.valid
    /\ offered[1].path \in DOMAIN signal_handles
    /\ offered[2].qualified_value.valid
    /\ Len(set_calls) = 1

\* C8: a periodic tick (process called with the empty batch) is issued in the
\* first loop iteration whose `now` lies at least 50 ms after the previous
\* periodic tick (after the start of the timer for the first one), also when
\* the polls return nothing; consecutive periodic ticks are at least 50 ms
\* apart; its emissions are published as those of an input-driven tick are.
C8_PeriodicTickEvery50ms ==
    /\ pc = "periodic_process" => now - periodic_ref >= 50 * TicksPerMs
    /\ pc = "sleep" => now - periodic_ref < 50 * TicksPerMs
    /\ pc = "periodic_publish" =>
          /\ proc_calls # << >>
          /\ proc_calls[Len(proc_calls)] = << >>
          /\ periodic_ref = now
          /\ now - last_periodic_check >= 50 * TicksPerMs
          /\ SetTriples(set_calls) = ExpectedTriples(offered)
    /\ pc \notin {"periodic_process", "periodic_publish"} =>
          periodic_ref = last_periodic_check

\* C8 witness: a second periodic tick, in an iteration whose poll returned
\* nothing, with its emission published
C8_Witness ==
    /\ pc = "periodic_publish"
    /\ last_periodic_check > 0
    /\ signal_updates = << >>
    /\ g_running
    /\ Len(offered) = 1
    /\ Len(set_calls) = 1

\* C9 as stated: in every iteration the polled batch is passed to the
\* processor exactly once, unmodified, before the emissions are published.
C9_EveryPolledBatchProcessed ==
    pc = "sleep" =>
       /\ proc_calls # << >>
       /\ proc_calls[1] = signal_updates

\* C9 amended: in every iteration whose poll returns a non-empty batch the
\* calls happen in the order poll, process on that batch, publish: the batch
\* is passed to the processor exactly once, unmodified, and the emissions
\* offered to the sink are exactly those returned for it, in the order
\* returned. An empty polled batch is not passed to the processor: the only
\* process call of such an iteration is that of a periodic tick, when due.
C9_PollProcessPublishOrder ==
    /\ pc = "process" =>
          /\ signal_updates # << >>
          /\ unprocessed = signal_updates
          /\ proc_calls = << >>
    /\ pc = "publish" =>
          /\ signal_updates # << >>
          /\ proc_calls = << signal_updates >>
          /\ offered = SubSeq(vss_signals, 1, Len(offered))
          /\ unoffered = SubSeq(vss_signals, Len(offered) + 1, Len(vss_signals))
          /\ SetTriples(set_calls) = ExpectedTriples(offered)
    /\ pc \in {"periodic_check", "sleep"} => unoffered = << >>
    /\ pc = "sleep" =>
          /\ unprocessed = << >>
          /\ IF signal_updates # << >>
               THEN /\ proc_calls \in { << signal_updates >>,
                                        << signal_updates, << >> >> }
               ELSE /\ proc_calls \in { << >>, << << >> >> }
                    /\ proc_calls # << >> => periodic_ref = now

\* C9 witness: the end of the publish loop of a non-empty batch, both
\* emissions offered in order
C9_Witness ==
    /\ pc = "publish"
    /\ Len(vss_signals) = 2
    /\ vss_signals[1] # vss_signals[2]
    /\ offered = vss_signals
    /\ proc_calls = << signal_updates >>
    /\ Len(set_calls) = 2

Declared(doc) == { i \in DOMAIN doc : Field(doc[i], "signal") # NoField }

HasUnknownDatatype(doc) ==
    \E i \in Declared(doc) :
       /\ Field(doc[i], "datatype") # NoField
       /\ doc[i].datatype # "float"

HasUnknownTrigger(doc) ==
    \E i \in Declared(doc) :
       Field(doc[i], "update_trigger") \notin
          {NoField, "on-dependency", "periodic", "both"}

HasMissingRequiredField(doc) ==
    \E i \in DOMAIN doc :
       Field(doc[i], "signal") = NoField \/ Field(doc[i], "datatype") = NoField

\* the bootstrap failed: main returned 1 and the loop was never reached
FatalAtInitialization == pc = "done" /\ exit_code = 1

\* C15: a mapping set with a dependency cycle, or with a depends_on name that
\* is no declared node, fails processor initialization, and the driver then
\* returns 1 before the source is constructed, before the broker resolver and
\* client are created, before any path is resolved and before any tick.
C15_CycleFailsInitialization ==
    (/\ HasCycle(signal_mapping) \/ HasDanglingDependency(signal_mapping)
     /\ pc \notin {"load_yaml", "init_processor"})
    => /\ FatalAtInitialization
       /\ log_error = "processor"
       /\ called = {"processor.initialize"}
       /\ source_state = "none"
       /\ source_args = {}
       /\ signal_handles = << >>
       /\ \A n \in Names : resolve_attempts[n] = 0

\* C15 witness: a two-node cycle made the driver return 1
C15_Witness ==
    /\ FatalAtInitialization
    /\ dag_mappings = Names
    /\ HasCycle(signal_mapping)
    /\ ~HasDanglingDependency(signal_mapping)

\* C16 as stated: a document with a mapping whose datatype string is not
\* recognized never gets the driver into its main loop, and when the driver
\* has returned it returned 1.
C16_UnknownDatatypeIsFatal ==
    /\ [](HasUnknownDatatype(root) /\ pc = "done" => exit_code = 1)
    /\ [][HasUnknownDatatype(root) => pc' # "loop_check"]_vars

\* C17 as stated: a document with a mapping whose update_trigger string is
\* none of "on-dependency", "periodic", "both" never gets the driver into its
\* main loop, and when the driver has returned it returned 1.
C17_UnknownTriggerIsFatal ==
    /\ [](HasUnknownTrigger(root) /\ pc = "done" => exit_code = 1)
    /\ [][HasUnknownTrigger(root) => pc' # "loop_check"]_vars

\* C18 as stated: a document with an entry that lacks its signal name or its
\* datatype never gets the driver into its main loop, and when the driver has
\* returned it returned 1.
C18_MissingFieldIsFatal ==
    /\ [](HasMissingRequiredField(root) /\ pc = "done" => exit_code = 1)
    /\ [][HasMissingRequiredField(root) => pc' # "loop_check"]_vars

\* what the constructor of the source is given at main.cpp:213-214
ConstructorArgs == {"can_interface", "dbc_file", "dag_mappings"}

\* C19 as stated: polls happen only after a successful initialize(); the
\* required input signals are read from the processor after its
\* initialization and before the first poll, and handed to the source; stop()
\* is called only on the graceful path.
C19_RequiredInputsHandedToSource ==
    /\ "poll" \in called => source_state \in {"initialized", "stopped"}
    /\ "required_inputs" \in called =>
          /\ "processor.initialize" \in called
          /\ "required_signals" \in source_args
    /\ source_state = "stopped" => (pc = "done" /\ exit_code = 0)

\* C19 amended: the driver constructs the source from the interface name, the
\* DBC file and the mapping set, calls initialize() once and polls only after
\* it succeeded; the required input signals are read from the processor once,
\* after the processor and the source were initialized and before the first
\* poll, and are only logged, never handed to the source; stop() is called
\* only on the graceful path, exactly once, after the last poll, and no poll,
\* process or publish happens after stop().
C19_SourceCallProtocol ==
    /\ [](/\ "poll" \in called =>
                /\ source_state \in {"initialized", "stopped"}
                /\ "required_inputs" \in called
          /\ "required_inputs" \in called =>
                /\ {"processor.initialize", "source.initialize"} \subseteq called
                /\ source_state # "failed"
          /\ source_args = IF source_state = "none" THEN {} ELSE ConstructorArgs
          /\ ("source.stop" \in called) = (source_state = "stopped")
          /\ source_state = "stopped" => (pc = "done" /\ exit_code = 0)
          /\ (pc = "done" /\ exit_code = 0) => source_state = "stopped")
    /\ [][ /\ ("source.initialize" \in called =>
                  /\ pc' # "init_source"
                  /\ source_args' = source_args
                  /\ source_state' \in {source_state, "stopped"})
           /\ (source_state' # source_state /\ source_state' = "stopped" =>
                  pc = "stop_source" /\ source_state = "initialized")
           /\ (source_state = "stopped" =>
                  /\ called' = called
                  /\ pc' = pc
                  /\ UNCHANGED << source_state, signal_updates, proc_calls,
                                  set_calls, vss_signals >>) ]_vars

\* C19 witness: the source was stopped after a run that polled, processed and
\* published, having been constructed from the mapping set
C19_Witness ==
    /\ source_state = "stopped"
    /\ source_args = ConstructorArgs
    /\ {"required_inputs", "poll", "process", "set", "source.stop"} \subseteq called

\* ------------------------------------------- the signal processor (DagSpec)
Initialized == processor_state = "initialized"

\* the time of the latest tick, as the processor reads it
NowMs == duration_cast_ms(clock)

\* the emissions of node n in the latest tick
EmissionsOf(n) == SelectSeq(vss_signals, LAMBDA e : e.path = n)

Emitted(n) == EmissionsOf(n) # << >>

IntervalOf(n) == signal_mapping[n].interval_ms

\* C11: throttling: for every node with interval_ms = k > 0, over any
\* sequence of input-driven and periodic ticks, two consecutive emissions of
\* the node are at least k apart; an emission at time t sets last_emit_ts to
\* t and clears the dirty flag (and a node emits at most once in a tick).
C11_Throttling ==
    Initialized =>
       \A n \in dag_mappings :
          /\ (IntervalOf(n) > 0 /\ prev_emit_ts[n] # NeverTs) =>
                last_emit_ts[n] - prev_emit_ts[n] >= IntervalOf(n)
          /\ Emitted(n) => /\ last_emit_ts[n] = NowMs
                           /\ ~dirty[n]
                           /\ Len(EmissionsOf(n)) = 1
          /\ ~Emitted(n) => (last_emit_ts[n] = NeverTs \/ last_emit_ts[n] <= NowMs)

\* C11 witness: a throttled node emitted a second time, exactly k after the
\* first, after a tick in between in which it was held back
C11_Witness ==
    /\ Initialized
    /\ \E n \in dag_mappings :
          /\ IntervalOf(n) > 0
          /\ Emitted(n)
          /\ prev_emit_ts[n] # NeverTs
          /\ last_emit_ts[n] - prev_emit_ts[n] = IntervalOf(n)
          /\ last_eval_ts[n] > prev_emit_ts[n]

\* C12: same-tick causality: when a node and one of its dependencies are
\* both activated in a tick, the node's evaluator reads the value the
\* dependency obtained in this tick; the nodes are visited in an order that
\* places every node after its dependencies; an activated leaf holds the
\* value of the (last) update of its input in the batch of the tick.
C12_SameTickCausality ==
    Initialized =>
       /\ \A b \in activated :
             \A a \in DependsOn(signal_mapping[b]) \cap activated :
                env_read[b][a] = last_value[a]
       /\ Range(topological_order) = dag_mappings
       /\ Len(topological_order) = Cardinality(dag_mappings)
       /\ \A i, j \in DOMAIN topological_order :
             topological_order[i] \in DependsOn(signal_mapping[topological_order[j]])
                => i < j
       /\ \A l \in activated :
             IsLeaf(signal_mapping[l]) =>
                LET ups == UpdatesFor(signal_updates, signal_mapping[l].source)
                IN  /\ ups # << >>
                    /\ last_value[l] = [valid |-> ups[Len(ups)].valid,
                                        value |-> ups[Len(ups)].value]

\* C12 witness: a node declared before its dependency read, in the tick that
\* changed the dependency from one valid value to another, the new value
C12_Witness ==
    /\ Initialized
    /\ Len(root) = 2
    /\ LET b == root[1].signal
           a == root[2].signal
       IN  /\ a \in DependsOn(signal_mapping[b])
           /\ {a, b} \subseteq activated
           /\ prev_value[a].valid
           /\ last_value[a].valid
           /\ prev_value[a] # last_value[a]
           /\ env_read[b][a] = last_value[a]
           /\ Len(signal_updates) = 2

\* C13: deferred emission under throttling: a valid value evaluated in a tick
\* in which the throttle holds the emission back is not lost: the node stays
\* dirty, and after every tick a node that is dirty with a valid value is one
\* whose interval has not yet elapsed since its last emission; so it emits
\* its last value in the first later tick at which the interval has elapsed,
\* also when that tick carries no update.
C13_DeferredEmission ==
    Initialized =>
       \A n \in dag_mappings :
          /\ (dirty[n] /\ last_value[n].valid) =>
                /\ IntervalOf(n) > 0
                /\ last_emit_ts[n] # NeverTs
                /\ NowMs - last_emit_ts[n] < IntervalOf(n)
          /\ (n \in activated /\ last_value[n].valid /\ ~Emitted(n)) => dirty[n]
          /\ Emitted(n) => EmissionsOf(n)[1].qualified_value = last_value[n]

\* C13 witness: a derived node with update_trigger both and interval k emits,
\* in a tick without updates in which it was not evaluated, exactly k after
\* its previous emission, the value it evaluated in a tick in between
C13_Witness ==
    /\ Initialized
    /\ signal_updates = << >>
    /\ \E n \in dag_mappings :
          /\ ~IsLeaf(signal_mapping[n])
          /\ signal_mapping[n].update_trigger = "BOTH"
          /\ IntervalOf(n) > 0
          /\ Emitted(n)
          /\ n \notin activated
          /\ prev_emit_ts[n] # NeverTs
          /\ NowMs - prev_emit_ts[n] = IntervalOf(n)
          /\ last_eval_ts[n] > prev_emit_ts[n]
          /\ last_eval_ts[n] < NowMs

\* the throttle holds the emission of node n back
Throttled(n) ==
    /\ IntervalOf(n) > 0
    /\ last_emit_ts[n] # NeverTs
    /\ NowMs - last_emit_ts[n] < IntervalOf(n)

\* what the latest tick did to node b when its leaf dependency a received an
\* update: an invalid update leaves b invalid and not emitted; a valid update
\* has b re-evaluated to that valid value and emitted, at once or, when the
\* throttle holds it back, later (it stays dirty)
FollowsValidityOf(b, a) ==
    IF last_value[a].valid
      THEN /\ b \in activated
           /\ last_value[b] = last_value[a]
           /\ \/ /\ Emitted(b)
                 /\ EmissionsOf(b)[1].qualified_value = last_value[a]
              \/ dirty[b] /\ Throttled(b)
      ELSE /\ ~last_value[b].valid
           /\ ~Emitted(b)

\* C14 as stated: when a leaf A receives an invalid update, every derived
\* node B that depends on A becomes invalid and is not emitted in that tick;
\* when A receives a valid update, B is re-evaluated and emitted with a valid
\* value.
C14_InvalidityPropagates ==
    Initialized =>
       \A b \in dag_mappings :
          \A a \in DependsOn(signal_mapping[b]) :
             (IsLeaf(signal_mapping[a]) /\ a \in activated) =>
                FollowsValidityOf(b, a)

\* C14 amended: the same for a derived node B whose update_trigger lets its
\* dependencies activate it (on-dependency, the default, or both): an invalid
\* update of A makes B invalid and B is not emitted in that tick; a later
\* valid update of A has B re-evaluated to a valid value and emitted, in that
\* tick or, when B is throttled, in the first later tick its interval allows.
\* A node with update_trigger periodic is re-evaluated only when its own
\* period has elapsed and keeps its value until then.
C14_InvalidityPropagatesWhenTriggered ==
    Initialized =>
       \A b \in dag_mappings :
          \A a \in DependsOn(signal_mapping[b]) :
             (/\ IsLeaf(signal_mapping[a])
              /\ a \in activated
              /\ signal_mapping[b].update_trigger \in {"ON_DEPENDENCY", "BOTH"})
             => FollowsValidityOf(b, a)

\* C14 witness: B had been emitted, A then received an invalid update that
\* made B invalid, and in the latest tick a valid update of A made B valid
\* again and B was emitted
C14_Witness ==
    /\ Initialized
    /\ \E b \in dag_mappings :
          \E a \in DependsOn(signal_mapping[b]) :
             /\ signal_mapping[b].update_trigger = "ON_DEPENDENCY"
             /\ a \in activated
             /\ ~prev_value[a].valid
             /\ ~prev_value[b].valid
             /\ prev_emit_ts[b] # NeverTs
             /\ last_value[a].valid
             /\ Emitted(b)
             /\ EmissionsOf(b)[1].qualified_value.valid

\* a node depends on the other, directly or through other nodes
Ordered(x, y) ==
    \/ x \in TransitiveDeps(signal_mapping, y)
    \/ y \in TransitiveDeps(signal_mapping, x)

\* the position of an element in a sequence without repetitions
PositionIn(seq, x) == CHOOSE i \in DOMAIN seq : seq[i] = x

EmittedPaths == [i \in DOMAIN vss_signals |-> vss_signals[i].path]

\* C20 as stated: of two nodes that the dependency relation does not order,
\* the one declared earlier in the mapping document is processed, and
\* emitted, before the one declared later.
C20_StableTopologicalOrder ==
    Initialized =>
       \A i, j \in DOMAIN root :
          (i < j /\ ~Ordered(root[i].signal, root[j].signal)) =>
             /\ PositionIn(topological_order, root[i].signal)
                   < PositionIn(topological_order, root[j].signal)
             /\ (Emitted(root[i].signal) /\ Emitted(root[j].signal)) =>
                   PositionIn(EmittedPaths, root[i].signal)
                      < PositionIn(EmittedPaths, root[j].signal)

\* ------------------------------------------------------ output paths (Spec)
\* C21: output paths equal node names verbatim: every key of the handle table
\* is a declared mapping name and holds the handle that was resolved for that
\* very name; an emission with path p is published only through the handle
\* stored for p, never through the handle of a different path; and the table
\* does not change once the loop runs.
C21_PublishedThroughOwnHandle ==
    /\ [](/\ DOMAIN signal_handles \subseteq dag_mappings
          /\ \A n \in DOMAIN signal_handles : signal_handles[n].path = n
          /\ \A i \in DOMAIN set_calls :
                /\ set_calls[i].for_path \in DOMAIN signal_handles
                /\ set_calls[i].handle = signal_handles[set_calls[i].for_path]
                /\ set_calls[i].handle.path = set_calls[i].for_path
                /\ \E j \in DOMAIN offered :
                      offered[j].path = set_calls[i].for_path)
    /\ [][InLoop => signal_handles' = signal_handles]_vars

\* C21 witness: with two handles in the table, a tick emitted both paths and
\* each was published through its own handle
C21_Witness ==
    /\ pc \in PublishPcs
    /\ Cardinality(DOMAIN signal_handles) = 2
    /\ Len(set_calls) = 2
    /\ set_calls[1].for_path # set_calls[2].for_path
    /\ set_calls[1].handle # set_calls[2].handle
    /\ set_calls[1].handle.path = offered[1].path
    /\ set_calls[2].handle.path = offered[2].path

\* ------------------------------------------- the parse loop (ParseSpec, BootSpec)
\* the last entry of the document that declares the name
LastEntry(doc, name) ==
    doc[CHOOSE i \in DOMAIN doc :
           /\ doc[i].signal = name
           /\ \A j \in DOMAIN doc : doc[j].signal = name => j <= i]

\* the keys of the entry's transform map, none when it has no transform
TransformKeysOf(e) ==
    IF "transform" \in DOMAIN e THEN DOMAIN e.transform ELSE {}

\* the to of the last item of the list that has this from
LastTo(items, from) ==
    items[CHOOSE i \in DOMAIN items :
             /\ items[i].from = from
             /\ \A j \in DOMAIN items : items[j].from = from => j <= i].to

\* C22: transform selection is a total function of the mapping entry: no
\* transform key gives direct; a transform with key code gives a code
\* transform with that expression; otherwise key math gives a code transform
\* with that expression; otherwise key mapping gives a value-map with one
\* pair per listed from value, the later item of a from replacing the
\* earlier; a transform with none of these keys gives direct; one kind
\* results for every entry.
C22_TransformSelection ==
    pc = "init_processor" =>
       \A name \in dag_mappings :
          LET e    == LastEntry(root, name)
              keys == TransformKeysOf(e)
              t    == signal_mapping[name].transform
          IN  /\ t.kind \in {"DirectMapping", "CodeTransform", "ValueMapping"}
              /\ "transform" \notin DOMAIN e => t = [kind |-> "DirectMapping"]
              /\ "code" \in keys =>
                    t = [kind |-> "CodeTransform",
                         expression |-> e.transform.code]
              /\ ("code" \notin keys /\ "math" \in keys) =>
                    t = [kind |-> "CodeTransform",
                         expression |-> e.transform.math]
              /\ ({"code", "math"} \cap keys = {} /\ "mapping" \in keys) =>
                    LET items == e.transform.mapping
                    IN  /\ t.kind = "ValueMapping"
                        /\ DOMAIN t = {"kind", "mappings"}
                        /\ DOMAIN t.mappings =
                              { items[i].from : i \in DOMAIN items }
                        /\ \A from \in DOMAIN t.mappings :
                              t.mappings[from] = LastTo(items, from)
              /\ ("transform" \in DOMAIN e
                    /\ {"code", "math", "mapping"} \cap keys = {}) =>
                    t = [kind |-> "DirectMapping"]

\* C22 witness: an entry whose transform carries code, math and mapping was
\* parsed to the code transform of its code expression
C22_Witness ==
    /\ pc = "init_processor"
    /\ \E name \in dag_mappings :
          /\ {"code", "math", "mapping"} \subseteq
                TransformKeysOf(LastEntry(root, name))
          /\ signal_mapping[name].transform =
                [kind |-> "CodeTransform", expression |-> "Speed * 2"]

\* C22 second witness: a mapping list with two items of the same from was
\* parsed to a value-map with the single pair of the later item
C22_WitnessValueMap ==
    /\ pc = "init_processor"
    /\ \E name \in dag_mappings :
          /\ TransformKeysOf(LastEntry(root, name)) = {"mapping", "scale"}
          /\ Len(LastEntry(root, name).transform.mapping) = 2
          /\ signal_mapping[name].transform.kind = "ValueMapping"
          /\ DOMAIN signal_mapping[name].transform.mappings = {"0"}
          /\ signal_mapping[name].transform.mappings["0"] = "R"

\* ------------------------------------------- input and periodic ticks (Spec)
PeriodicIntervalTicks == PeriodicIntervalMs * TicksPerMs

\* C23: input-driven ticks never postpone periodic ticks: in the loop the
\* periodic timer changes only at the end of a periodic tick, to that tick's
\* `now`; the periodic check of an iteration starts a periodic tick exactly
\* when 50 ms have elapsed on the timer, whatever the poll returned, so no
\* iteration with a non-empty poll reaches its sleep with the tick overdue;
\* in an iteration with a non-empty poll and a periodic tick process is called
\* twice, with the polled batch and then with the empty batch, and never more
\* than twice in an iteration; with an empty poll the only process call is
\* that of the periodic tick.
C23_InputTicksNeverPostponePeriodic ==
    /\ [](/\ Len(proc_calls) <= 2
          /\ (pc = "periodic_process" /\ signal_updates # << >>) =>
                /\ proc_calls = << signal_updates >>
                /\ now - last_periodic_check >= PeriodicIntervalTicks
          /\ (pc = "periodic_publish" /\ signal_updates # << >>) =>
                proc_calls = << signal_updates, << >> >>
          /\ (pc = "sleep" /\ signal_updates # << >>) =>
                /\ proc_calls \in { << signal_updates >>,
                                    << signal_updates, << >> >> }
                /\ now - last_periodic_check < PeriodicIntervalTicks
                /\ Len(proc_calls) = 2 => last_periodic_check = now
          /\ (InLoop /\ signal_updates = << >>) =>
                /\ proc_calls \in { << >>, << << >> >> }
                /\ proc_calls # << >> => pc \in {"periodic_publish", "sleep"})
    /\ [][ /\ (InLoop /\ last_periodic_check' # last_periodic_check) =>
                /\ pc = "periodic_publish"
                /\ pc' = "sleep"
                /\ proc_calls[Len(proc_calls)] = << >>
                /\ last_periodic_check' = now
           /\ (pc = "periodic_check" /\ pc' # pc) =>
                (pc' = "periodic_process"
                   <=> clock - last_periodic_check >= PeriodicIntervalTicks) ]_vars

\* C23 witness: the second periodic tick of a run, issued in an iteration
\* whose poll returned a batch that was processed first
C23_Witness ==
    /\ pc = "periodic_publish"
    /\ signal_updates # << >>
    /\ proc_calls = << signal_updates, << >> >>
    /\ last_periodic_check > 0
    /\ now - last_periodic_check >= PeriodicIntervalTicks

\* the signal names the entries of a document declare
DeclaredNames(doc) == { doc[i].signal : i \in Declared(doc) }

\* the document declares a name more than once
HasDuplicateNames(doc) ==
    \E i, j \in Declared(doc) : i < j /\ doc[i].signal = doc[j].signal

\* C24: several entries of one signal name are no error: the mapping set has
\* exactly one node per distinct signal name among the entries that have a
\* signal field, the node carries the fields of the last entry of its name in
\* document order, and this one set is what the processor is initialized
\* with, what the source is constructed from and what the pre-resolve loop
\* goes over, with one resolution per node.
C24_DuplicateNamesLastWins ==
    /\ [](root # << >> =>
            /\ dag_mappings = DeclaredNames(root)
            /\ DOMAIN signal_mapping = DeclaredNames(root)
            /\ Cardinality(DOMAIN signal_mapping)
                  = Cardinality(DeclaredNames(root))
            /\ \A name \in DeclaredNames(root) :
                  signal_mapping[name] = ParseEntry(LastEntry(root, name))
            /\ source_state # "none" => "dag_mappings" \in source_args
            /\ \A name \in Names :
                  /\ resolve_attempts[name] <= 1
                  /\ resolve_attempts[name] = 1 => name \in DeclaredNames(root)
            /\ pc = "resolve" =>
                  resolve_pending
                     \cup { name \in Names : resolve_attempts[name] = 1 }
                  = DeclaredNames(root))
    /\ [][(pc = "load_yaml" /\ HasDuplicateNames(root')) =>
             /\ pc' = "init_processor"
             /\ log_error' = "none"
             /\ exit_code' = NoExit]_vars

\* C24 witness: a document with two entries of one name that differ in a
\* field went through bootstrap without error, up to the end of the
\* pre-resolve loop, as one node carrying the fields of the second entry
C24_Witness ==
    /\ pc = "resolve"
    /\ resolve_pending = {}
    /\ exit_code = NoExit
    /\ log_error = "none"
    /\ source_state = "initialized"
    /\ Len(root) = 2
    /\ HasDuplicateNames(root)
    /\ ParseEntry(root[1]) # ParseEntry(root[2])
    /\ Cardinality(dag_mappings) = 1
    /\ \A name \in dag_mappings :
          /\ signal_mapping[name] = ParseEntry(root[2])
          /\ resolve_attempts[name] = 1
====
